---- MODULE Spec2Model ----
(***************************************************************************)
(* A model of doxygen-rs' parser (src/parser.rs): `parse` lexes the input, *)
(* pads the token stream with three Space tokens and runs `parse_items`,   *)
(* a pass over the 4-token windows of the stream.                          *)
(*                                                                         *)
(* A string is a sequence of one-character strings, so that prefix tests,  *)
(* splitting and concatenation are computed and not assumed.               *)
(***************************************************************************)
EXTENDS Naturals, Sequences, FiniteSets, TLC

VARIABLES input, pc, lexed, idx, grammar_items, param_iter_skip_count, result

vars == <<input, pc, lexed, idx, grammar_items, param_iter_skip_count, result>>

(***************************************************************************)
(* Characters and strings                                                  *)
(***************************************************************************)
AT == "@"
OPEN_PAREN == "{"
CLOSED_PAREN == "}"
SP == " "
NL == "\n"
BRACKET == "["

sParam == <<"p", "a", "r", "a", "m">>
sIn == <<"i", "n">>
sOut == <<"o", "u", "t">>
sInB == <<"i", "n", "]">>
sOutB == <<"o", "u", "t", "]">>
sInOutB == <<"i", "n", ",", "o", "u", "t", "]">>
sOutInB == <<"o", "u", "t", ",", "i", "n", "]">>

\* The tag names whose first following word is captured as the argument.
SingleArgTags ==
    { <<"a">>, <<"b">>, <<"c">>, <<"p">>,
      <<"e", "m", "o", "j", "i">>, <<"e">>, <<"e", "m">>, <<"d", "e", "f">>,
      <<"c", "l", "a", "s", "s">>,
      <<"c", "a", "t", "e", "g", "o", "r", "y">>,
      <<"c", "o", "n", "c", "e", "p", "t">>,
      <<"e", "n", "u", "m">>,
      <<"e", "x", "a", "m", "p", "l", "e">>,
      <<"e", "x", "t", "e", "n", "d", "s">>,
      <<"f", "i", "l", "e">>, <<"s", "a">>, <<"s", "e", "e">>,
      <<"r", "e", "t", "v", "a", "l">>,
      <<"e", "x", "c", "e", "p", "t", "i", "o", "n">>,
      <<"t", "h", "r", "o", "w">>, <<"t", "h", "r", "o", "w", "s">> }

\* str::starts_with
StartsWith(v, p) == Len(v) >= Len(p) /\ SubSeq(v, 1, Len(p)) = p

Last(s) == s[Len(s)]
Front(s) == SubSeq(s, 1, Len(s) - 1)

\* str::split(c): the segments of v between the occurrences of c, in order.
RECURSIVE SplitFrom(_, _, _, _)
SplitFrom(v, c, i, acc) ==
    IF i > Len(v) THEN acc
    ELSE IF v[i] = c THEN SplitFrom(v, c, i + 1, Append(acc, <<>>))
    ELSE SplitFrom(v, c, i + 1, Append(Front(acc), Append(Last(acc), v[i])))

Split(v, c) == SplitFrom(v, c, 1, << <<>> >>)

(***************************************************************************)
(* Tokens (LexItem) and the tokenizer                                      *)
(***************************************************************************)
TAt == [type |-> "At", v |-> <<AT>>]
TSpace == [type |-> "Space", v |-> <<SP>>]
TNewLine == [type |-> "NewLine", v |-> <<NL>>]
TParen(c) == [type |-> "Paren", v |-> <<c>>]
TWord(w) == [type |-> "Word", v |-> w]

IsHSpace(c) == c = SP \/ c = "\t"

\* One character of the scan: sigil, brace, horizontal whitespace (a run is one
\* Space token), line break, otherwise a character of a maximal Word.
LexChar(acc, c) ==
    IF c = AT THEN Append(acc, TAt)
    ELSE IF c = OPEN_PAREN \/ c = CLOSED_PAREN THEN Append(acc, TParen(c))
    ELSE IF IsHSpace(c) THEN
        IF acc # <<>> /\ Last(acc).type = "Space" THEN acc ELSE Append(acc, TSpace)
    ELSE IF c = NL THEN Append(acc, TNewLine)
    ELSE IF acc # <<>> /\ Last(acc).type = "Word"
         THEN Append(Front(acc), TWord(Append(Last(acc).v, c)))
         ELSE Append(acc, TWord(<<c>>))

RECURSIVE LexFrom(_, _, _)
LexFrom(s, i, acc) ==
    IF i > Len(s) THEN acc ELSE LexFrom(s, i + 1, LexChar(acc, s[i]))

lex(s) == LexFrom(s, 1, <<>>)

(***************************************************************************)
(* Grammar items and the outcome of one dispatch                           *)
(***************************************************************************)
Notation(meta, params, tag) ==
    [kind |-> "Notation", meta |-> meta, params |-> params, tag |-> tag]
Text(t) == [kind |-> "Text", text |-> t]
GroupStart == [kind |-> "GroupStart"]
GroupEnd == [kind |-> "GroupEnd"]

IsText(it) == it.kind = "Text"
IsNotation(it) == it.kind = "Notation"

UnexpectedInput(found, expected) ==
    [kind |-> "UnexpectedInput", found |-> found, expected |-> expected]

\* The local state of parse_items after a dispatch: the items, the skip
\* counter and, when the dispatch returned early, the error (at most one).
St(items, skip) == [items |-> items, skip |-> skip, err |-> <<>>]
Fail(e) == [items |-> <<>>, skip |-> 0, err |-> <<e>>]

PadLen == 3
WindowLen == 4

\* Padding with one Space more than the window needs.
Padding_Four == [i \in 1..(PadLen + 1) |-> TSpace]

\* parse line 29: the three synthetic Space tokens.
Padding == [i \in 1..PadLen |-> TSpace]

\* slice::windows(4): how many windows a stream has.
NumWindows(toks) == IF Len(toks) >= WindowLen THEN Len(toks) - WindowLen + 1 ELSE 0
Window(toks, i) == SubSeq(toks, i, i + WindowLen - 1)

\* ParamMeta with the directions in the order the suffix writes them.
ParamMeta_SuffixOrder(v) ==
    LET parts == Split(v, BRACKET) IN
    IF Len(parts) < 2 THEN [ok |-> TRUE, meta |-> <<>>]
    ELSE LET value == parts[2] IN
         IF value = sInB THEN [ok |-> TRUE, meta |-> <<sIn>>]
         ELSE IF value = sOutB THEN [ok |-> TRUE, meta |-> <<sOut>>]
         ELSE IF value = sInOutB THEN [ok |-> TRUE, meta |-> <<sIn, sOut>>]
         ELSE IF value = sOutInB THEN [ok |-> TRUE, meta |-> <<sOut, sIn>>]
         ELSE [ok |-> FALSE, found |-> value, expected |-> <<sInB, sOutB>>]

\* The direction suffix of a param tag word: split('[').nth(1) and its match.
\* <<>> when there is no '[', else the outcome for the segment after it.
ParamMeta(v) ==
    LET parts == Split(v, BRACKET) IN
    IF Len(parts) < 2 THEN [ok |-> TRUE, meta |-> <<>>]
    ELSE LET value == parts[2] IN
         IF value = sInB THEN [ok |-> TRUE, meta |-> <<sIn>>]
         ELSE IF value = sOutB THEN [ok |-> TRUE, meta |-> <<sOut>>]
         ELSE IF value = sInOutB \/ value = sOutInB
              THEN [ok |-> TRUE, meta |-> <<sIn, sOut>>]
         ELSE [ok |-> FALSE, found |-> value, expected |-> <<sInB, sOutB>>]

\* CaptureArg looking one token too early, at item.get(2).
CaptureArg_Offset2(item) ==
    IF Len(item) >= 3 /\ item[3].type = "Word" THEN <<item[3].v>> ELSE <<>>

\* match item.get(3) { Some(Word(v)) => vec![v], _ => vec![] }
CaptureArg(item) ==
    IF Len(item) >= 4 /\ item[4].type = "Word" THEN <<item[4].v>> ELSE <<>>

\* TagParams capturing an argument for every tag name.
TagParams_AnyTag(v, item) ==
    IF Len(item) >= 4 /\ item[4].type = "Word" THEN <<item[4].v>> ELSE <<>>

\* The params of a tag word that does not begin with "param".
TagParams(v, item) == IF v \in SingleArgTags THEN CaptureArg(item) ELSE <<>>

\* The tag under which a tag word is emitted.
TagContent(v) == IF StartsWith(v, sParam) THEN sParam ELSE v

\* SkipFor not counting the tag word itself.
SkipFor_ArgOnly(params) == IF params = <<>> THEN 0 ELSE 1

\* The skip count set after a tag word was resolved.
SkipFor(params) == IF params = <<>> THEN 1 ELSE 2

\* AtWord adding the new skip count to the one still pending.
AtWord_AddSkip(st, v, item) ==
    IF StartsWith(v, sParam) THEN
        LET m == ParamMeta(v) IN
        IF ~m.ok THEN Fail(UnexpectedInput(m.found, m.expected))
        ELSE LET params == CaptureArg(item) IN
             St(Append(st.items, Notation(m.meta, params, TagContent(v))),
                st.skip + SkipFor(params))
    ELSE LET params == TagParams(v, item) IN
         St(Append(st.items, Notation(<<>>, params, TagContent(v))),
            st.skip + SkipFor(params))

\* LexItem::At(_) with a Word next.
AtWord(st, v, item) ==
    IF StartsWith(v, sParam) THEN
        LET m == ParamMeta(v) IN
        IF ~m.ok THEN Fail(UnexpectedInput(m.found, m.expected))
        ELSE LET params == CaptureArg(item) IN
             St(Append(st.items, Notation(m.meta, params, TagContent(v))),
                SkipFor(params))
    ELSE LET params == TagParams(v, item) IN
         St(Append(st.items, Notation(<<>>, params, TagContent(v))),
            SkipFor(params))

\* AtParen knowing the opening brace only.
AtParen_OpenOnly(st, c) ==
    IF c = OPEN_PAREN THEN St(Append(st.items, GroupStart), st.skip) ELSE st

\* AtParen with the two group items exchanged.
AtParen_Swapped(st, c) ==
    IF c = OPEN_PAREN THEN St(Append(st.items, GroupEnd), st.skip)
    ELSE IF c = CLOSED_PAREN THEN St(Append(st.items, GroupStart), st.skip)
    ELSE Fail(UnexpectedInput(<<c>>, << <<OPEN_PAREN>>, <<CLOSED_PAREN>> >>))

\* LexItem::At(_) with a Paren next.
AtParen(st, c) ==
    IF c = OPEN_PAREN THEN St(Append(st.items, GroupStart), st.skip)
    ELSE IF c = CLOSED_PAREN THEN St(Append(st.items, GroupEnd), st.skip)
    ELSE Fail(UnexpectedInput(<<c>>, << <<OPEN_PAREN>>, <<CLOSED_PAREN>> >>))

\* ExtendLast assigning the new content instead of appending it.
ExtendLast_Assign(items, s) == Append(Front(items), Text(s))

\* Append s to the last item, which is a Text.
ExtendLast(items, s) ==
    Append(Front(items), Text(Last(items).text \o s))

LastIsText(items) == items # <<>> /\ IsText(Last(items))

\* AtStep keeping a sigil that starts no tag and no group as literal text.
AtStep_Literal(st, item) ==
    IF Len(item) >= 2 THEN
        LET next == item[2] IN
        IF next.type = "Paren" THEN AtParen(st, next.v[1])
        ELSE IF next.type = "Word" THEN AtWord(st, next.v, item)
        ELSE IF LastIsText(st.items) THEN St(ExtendLast(st.items, <<AT>>), st.skip)
        ELSE St(Append(st.items, Text(<<AT>>)), st.skip)
    ELSE st

\* AtStep demanding a Paren or a Word after the sigil.
AtStep_Strict(st, item) ==
    IF Len(item) >= 2 THEN
        LET next == item[2] IN
        IF next.type = "Paren" THEN AtParen(st, next.v[1])
        ELSE IF next.type = "Word" THEN AtWord(st, next.v, item)
        ELSE Fail([kind |-> "UnexpectedEndOfInput"])
    ELSE Fail([kind |-> "UnexpectedEndOfInput"])

\* LexItem::At(_): the lookahead at item.get(1).
AtStep(st, item) ==
    IF Len(item) >= 2 THEN
        LET next == item[2] IN
        IF next.type = "Paren" THEN AtParen(st, next.v[1])
        ELSE IF next.type = "Word" THEN AtWord(st, next.v, item)
        ELSE st
    ELSE st

\* WordStep decrementing the counter without skipping the word.
WordStep_NoContinue(st, v) ==
    LET skip == IF st.skip > 0 THEN st.skip - 1 ELSE st.skip IN
    IF LastIsText(st.items) THEN St(ExtendLast(st.items, v), skip)
    ELSE St(Append(st.items, Text(v)), skip)

\* LexItem::Word(v)
WordStep(st, v) ==
    IF st.skip > 0 THEN St(st.items, st.skip - 1)
    ELSE IF LastIsText(st.items) THEN St(ExtendLast(st.items, v), st.skip)
    ELSE St(Append(st.items, Text(v)), st.skip)

\* SpaceStep starting a new Text whatever the last item is.
SpaceStep_NoMerge(st) ==
    IF st.items # <<>> THEN St(Append(st.items, Text(<<>>)), st.skip)
    ELSE St(Append(st.items, Text(<<SP>>)), st.skip)

\* SpaceStep leaving a Text that is the last item as it is.
SpaceStep_NoAppend(st) ==
    IF st.items # <<>> THEN
        IF IsText(Last(st.items)) THEN st
        ELSE St(Append(st.items, Text(<<>>)), st.skip)
    ELSE St(Append(st.items, Text(<<SP>>)), st.skip)

\* SpaceStep recording the space also after an item that is no Text.
SpaceStep_KeepSpace(st) ==
    IF LastIsText(st.items) THEN St(ExtendLast(st.items, <<SP>>), st.skip)
    ELSE St(Append(st.items, Text(<<SP>>)), st.skip)

\* LexItem::Space
SpaceStep(st) ==
    IF st.items # <<>> THEN
        IF IsText(Last(st.items)) THEN St(ExtendLast(st.items, <<SP>>), st.skip)
        ELSE St(Append(st.items, Text(<<>>)), st.skip)
    ELSE St(Append(st.items, Text(<<SP>>)), st.skip)

\* NewLineStep starting a Text when there is none to extend.
NewLineStep_Seed(st) ==
    IF LastIsText(st.items) THEN St(ExtendLast(st.items, <<NL>>), st.skip)
    ELSE St(Append(st.items, Text(<<NL>>)), st.skip)

\* LexItem::NewLine
NewLineStep(st) ==
    IF LastIsText(st.items) THEN St(ExtendLast(st.items, <<NL>>), st.skip) ELSE st

\* ParenStep starting a Text when there is none to extend.
ParenStep_Seed(st, c) ==
    IF LastIsText(st.items) THEN St(ExtendLast(st.items, <<c>>), st.skip)
    ELSE St(Append(st.items, Text(<<c>>)), st.skip)

\* LexItem::Paren(v)
ParenStep(st, c) ==
    IF LastIsText(st.items) THEN St(ExtendLast(st.items, <<c>>), st.skip) ELSE st

\* The body of the for loop for one window.
Dispatch(st, item) ==
    LET cur == item[1] IN
    IF cur.type = "At" THEN AtStep(st, item)
    ELSE IF cur.type = "Word" THEN WordStep(st, cur.v)
    ELSE IF cur.type = "Space" THEN SpaceStep(st)
    ELSE IF cur.type = "NewLine" THEN NewLineStep(st)
    ELSE ParenStep(st, cur.v[1])

Ok(items) == [kind |-> "Ok", items |-> items]
Err(e) == [kind |-> "Err", error |-> e]
None == [kind |-> "None"]

\* parse_items as a function: the loop over the windows from window i on.
RECURSIVE ItemsFrom(_, _, _)
ItemsFrom(toks, i, st) ==
    IF st.err # <<>> THEN Err(st.err[1])
    ELSE IF i > NumWindows(toks) THEN Ok(st.items)
    ELSE ItemsFrom(toks, i + 1, Dispatch(st, Window(toks, i)))

parse_items(toks) == ItemsFrom(toks, 1, St(<<>>, 0))

\* parse as a function of the input.
parse(s) == parse_items(lex(s) \o Padding)

(***************************************************************************)
(* The inputs explored                                                     *)
(***************************************************************************)
MaxChunks == 4
MaxRun == 2
MaxRest == 3
MaxDesc == 2

\* The pieces general inputs are built from: every structural character and
\* word fragments that combine into plain, single-argument and param tags.
Chunks ==
    { <<AT>>, <<OPEN_PAREN>>, <<SP>>, <<NL>>,
      sParam, <<"[", "i", "n", "]">>, <<"[", "x", "]">>, <<"a">>, <<"x">> }

RECURSIVE Flatten(_)
Flatten(ss) == IF ss = <<>> THEN <<>> ELSE Head(ss) \o Flatten(Tail(ss))

SeqsUpTo(S, n) == UNION { [1..k -> S] : k \in 0..n }

GeneralInputs == { Flatten(cs) : cs \in SeqsUpTo(Chunks, MaxChunks) }

\* "@param[D]", spaces, a word, spaces, a sigil-free description.
sAtParamB == <<AT>> \o sParam \o <<BRACKET>>
Directions == { sIn, sOut, <<"i", "n", ",", "o", "u", "t">>, <<"o", "u", "t", ",", "i", "n">> }
Spaces(n) == [i \in 1..n |-> SP]
DescChunks == { <<SP>>, <<NL>>, <<OPEN_PAREN>>, <<"x">> }
ParamInputs ==
    { sAtParamB \o d \o <<"]">> \o Spaces(n1) \o x \o Spaces(n2) \o <<"d">> \o Flatten(cs) :
        d \in Directions, n1 \in 1..MaxRun, n2 \in 1..MaxRun,
        x \in { <<"x">>, <<"a">> }, cs \in SeqsUpTo(DescChunks, MaxDesc) }

\* "@name " and a remainder.
sAtNameSp == <<AT, "n", "a", "m", "e", SP>>
NameInputs == { sAtNameSp \o Flatten(cs) : cs \in SeqsUpTo(Chunks, MaxRest) }

\* "@{", a content, "@}".
sGroupOpen == <<AT, OPEN_PAREN>>
sGroupClose == <<AT, CLOSED_PAREN>>
GroupInputs ==
    { sGroupOpen \o Flatten(cs) \o sGroupClose : cs \in SeqsUpTo(Chunks, MaxRest) }

\* Inputs without a sigil, with both kinds of horizontal whitespace.
PlainChunks == { <<SP>>, <<"\t">>, <<NL>>, <<OPEN_PAREN>>, <<CLOSED_PAREN>>, <<"x">> }
PlainInputs == { Flatten(cs) : cs \in SeqsUpTo(PlainChunks, MaxChunks) }

\* Inputs dense in tags: whole tags, separators and a word.
TagChunks ==
    { <<AT, "a">>, <<AT, "x">>, <<AT>> \o sParam, <<SP>>, <<NL>>, <<"x">> }
TagInputs == { Flatten(cs) : cs \in SeqsUpTo(TagChunks, MaxRest) }

Inputs ==
    GeneralInputs \cup ParamInputs \cup NameInputs \cup GroupInputs
        \cup PlainInputs \cup TagInputs

(***************************************************************************)
(* The state machine                                                       *)
(***************************************************************************)
Init ==
    /\ input \in Inputs
    /\ pc = "parse"
    /\ lexed = <<>>
    /\ idx = 0
    /\ grammar_items = <<>>
    /\ param_iter_skip_count = 0
    /\ result = None

\* parse, lines 28-30, and the entry of parse_items, lines 34-35.
Parse ==
    /\ pc = "parse"
    /\ lexed' = lex(input) \o Padding
    /\ idx' = 1
    /\ grammar_items' = <<>>
    /\ param_iter_skip_count' = 0
    /\ pc' = "loop"
    /\ UNCHANGED <<input, result>>

Cur == St(grammar_items, param_iter_skip_count)

\* One iteration of the loop whose current token has the given type.
Step(type) ==
    /\ pc = "loop"
    /\ idx <= NumWindows(lexed)
    /\ Window(lexed, idx)[1].type = type
    /\ LET st == Dispatch(Cur, Window(lexed, idx)) IN
        IF st.err # <<>>
        THEN /\ result' = Err(st.err[1])
             /\ pc' = "done"
             /\ UNCHANGED <<grammar_items, param_iter_skip_count, idx>>
        ELSE /\ grammar_items' = st.items
             /\ param_iter_skip_count' = st.skip
             /\ idx' = idx + 1
             /\ UNCHANGED <<pc, result>>
    /\ UNCHANGED <<input, lexed>>

DispatchAt == Step("At")
DispatchWord == Step("Word")
DispatchSpace == Step("Space")
DispatchNewLine == Step("NewLine")
DispatchParen == Step("Paren")

\* Line 149: the windows are exhausted.
Return ==
    /\ pc = "loop"
    /\ idx > NumWindows(lexed)
    /\ result' = Ok(grammar_items)
    /\ pc' = "done"
    /\ UNCHANGED <<input, lexed, idx, grammar_items, param_iter_skip_count>>

Next ==
    \/ Parse
    \/ DispatchAt
    \/ DispatchWord
    \/ DispatchSpace
    \/ DispatchNewLine
    \/ DispatchParen
    \/ Return

Spec == Init /\ [][Next]_vars

(***************************************************************************)
(* Vocabulary of the properties, computed on the characters of the input   *)
(***************************************************************************)
Done == pc = "done"
IsOk == result.kind = "Ok"

Drop(s, n) == SubSeq(s, n + 1, Len(s))
EndsWith(s, p) == Len(s) >= Len(p) /\ SubSeq(s, Len(s) - Len(p) + 1, Len(s)) = p
HasChar(s, c) == \E i \in 1..Len(s) : s[i] = c
HasAt(s) == HasChar(s, AT)

\* The characters that end a word.
Structural == { AT, OPEN_PAREN, CLOSED_PAREN, SP, "\t", NL }

\* The number of leading characters of s that are in S.
RECURSIVE LeadLen(_, _)
LeadLen(s, S) == IF s = <<>> \/ Head(s) \notin S THEN 0 ELSE 1 + LeadLen(Tail(s), S)

\* The number of leading characters of s that belong to a word.
RECURSIVE LeadWordLen(_)
LeadWordLen(s) ==
    IF s = <<>> \/ Head(s) \in Structural THEN 0 ELSE 1 + LeadWordLen(Tail(s))

\* s with each run of space characters replaced by one space.
RECURSIVE Squeeze(_)
Squeeze(s) ==
    IF Len(s) <= 1 THEN s
    ELSE IF s[1] = SP /\ s[2] = SP THEN Squeeze(Tail(s))
    ELSE <<s[1]>> \o Squeeze(Tail(s))

\* s with each run of horizontal whitespace replaced by one space.
CollapseWs(s) == Squeeze([i \in 1..Len(s) |-> IF s[i] = "\t" THEN SP ELSE s[i]])

HasDoubleSpace(s) == \E i \in 1..(Len(s) - 1) : s[i] = SP /\ s[i + 1] = SP

\* The decomposition of an input "@param[D]", n1 >= 1 spaces, a word x,
\* n2 >= 1 spaces, a sigil-free description that starts with a word.
ParamForm(s) ==
    LET ds == { d \in Directions : StartsWith(s, sAtParamB \o d \o <<"]">>) } IN
    IF ds = {} THEN [ok |-> FALSE]
    ELSE LET d == CHOOSE e \in ds : TRUE
             r1 == Drop(s, Len(sAtParamB) + Len(d) + 1)
             n1 == LeadLen(r1, {SP})
             r2 == Drop(r1, n1)
             xl == LeadWordLen(r2)
             r3 == Drop(r2, xl)
             n2 == LeadLen(r3, {SP})
             desc == Drop(r3, n2)
         IN  IF n1 >= 1 /\ xl >= 1 /\ n2 >= 1 /\ LeadWordLen(desc) >= 1 /\ ~HasAt(desc)
             THEN [ok |-> TRUE, d |-> d, n1 |-> n1, x |-> SubSeq(r2, 1, xl),
                   n2 |-> n2, desc |-> desc]
             ELSE [ok |-> FALSE]

\* The directions a suffix names, "in" before "out".
DirMeta(d) ==
    (IF HasChar(d, "i") THEN <<sIn>> ELSE <<>>) \o (IF HasChar(d, "o") THEN <<sOut>> ELSE <<>>)

(***************************************************************************)
(* C1                                                                      *)
(***************************************************************************)
\* C1: for an input "@param[D]", spaces, a word x, spaces, a sigil-free
\* description starting with a word, parse returns exactly the Notation with
\* the directions of D ("in" first), params [x] and tag "param", followed by
\* the Text of one space and the description with its space runs collapsed,
\* whatever the lengths of the two space runs.
C1_ParamTag ==
    Done =>
        LET f == ParamForm(input) IN
        f.ok => result = Ok(<< Notation(DirMeta(f.d), <<f.x>>, sParam),
                               Text(<<SP>> \o Squeeze(f.desc)) >>)

\* A parse of "@param[out,in]" with longer space runs and a description whose
\* own space run was collapsed has ended.
C1_Witness ==
    /\ Done /\ IsOk
    /\ LET f == ParamForm(input) IN
        /\ f.ok /\ f.n1 > 1 /\ f.n2 > 1 /\ HasDoubleSpace(f.desc)
        /\ f.d = <<"o", "u", "t", ",", "i", "n">>
        /\ Len(result.items) = 2
        /\ result.items[1].meta = <<sIn, sOut>>

(***************************************************************************)
(* C2                                                                      *)
(***************************************************************************)
sName == <<"n", "a", "m", "e">>

\* The statement as claimed: the Text after "@name " equals the remainder
\* with its space runs collapsed.
C2_AsClaimed ==
    (Done /\ IsOk /\ StartsWith(input, sAtNameSp)) =>
        LET rem == Drop(input, Len(sAtNameSp)) IN
        /\ Len(result.items) >= 2
        /\ result.items[1] = Notation(<<>>, <<>>, sName)
        /\ IsText(result.items[2])
        /\ ~HasAt(rem) => /\ Len(result.items) = 2
                          /\ result.items[2].text = Squeeze(rem)

\* C2: for every input beginning with "@name " on which parse succeeds, the
\* first item is Notation{meta [], params [], tag "name"} and the second is a
\* Text; when the remainder has no sigil that Text is the last item and equals
\* the remainder without its leading spaces and with its other space runs
\* collapsed.
C2_NameTag ==
    (Done /\ IsOk /\ StartsWith(input, sAtNameSp)) =>
        LET rem == Drop(input, Len(sAtNameSp)) IN
        /\ Len(result.items) >= 2
        /\ result.items[1] = Notation(<<>>, <<>>, sName)
        /\ IsText(result.items[2])
        /\ ~HasAt(rem) => /\ Len(result.items) = 2
                          /\ result.items[2].text = Squeeze(Drop(rem, LeadLen(rem, {SP})))

\* A parse of "@name ", further spaces and a sigil-free remainder has ended.
C2_Witness ==
    /\ Done /\ IsOk /\ StartsWith(input, sAtNameSp)
    /\ LET rem == Drop(input, Len(sAtNameSp)) IN
        /\ ~HasAt(rem) /\ LeadLen(rem, {SP}) >= 1 /\ Len(rem) > LeadLen(rem, {SP}) + 1
        /\ result.items[2].text # <<>>

(***************************************************************************)
(* C3                                                                      *)
(***************************************************************************)
IsGroupInput(s) == Len(s) >= 4 /\ StartsWith(s, sGroupOpen) /\ EndsWith(s, sGroupClose)
GroupContent(s) == SubSeq(s, 3, Len(s) - 2)
Middle(items) == SubSeq(items, 2, Len(items) - 1)

\* items without the leading space of its first item, when that is a Text
\* that begins with a space.
DropLeadSpace(items) ==
    IF items # <<>> /\ IsText(items[1]) /\ StartsWith(items[1].text, <<SP>>)
    THEN <<Text(Tail(items[1].text))>> \o Tail(items)
    ELSE items

\* The statement as claimed: the items between GroupStart and GroupEnd are
\* the items of the enclosed content parsed on its own.
C3_AsClaimed ==
    (Done /\ IsOk /\ IsGroupInput(input)) =>
        /\ Len(result.items) >= 2
        /\ result.items[1] = GroupStart
        /\ Last(result.items) = GroupEnd
        /\ parse(GroupContent(input)) = Ok(Middle(result.items))

\* C3: for every input that starts with "@{", ends with "@}" and parses, the
\* first item is GroupStart, the last is GroupEnd, and the items between them
\* are the items the enclosed content yields when parsed on its own, except
\* that a first Text item that begins with a space comes without that space.
C3_Group ==
    (Done /\ IsOk /\ IsGroupInput(input)) =>
        /\ Len(result.items) >= 2
        /\ result.items[1] = GroupStart
        /\ Last(result.items) = GroupEnd
        /\ LET alone == parse(GroupContent(input)) IN
            /\ alone.kind = "Ok"
            /\ Middle(result.items) = DropLeadSpace(alone.items)

\* A group whose content starts with a space and holds a notation was parsed.
C3_Witness ==
    /\ Done /\ IsOk /\ IsGroupInput(input)
    /\ Len(result.items) >= 4
    /\ \E i \in 2..(Len(result.items) - 1) : IsNotation(result.items[i])
    /\ StartsWith(GroupContent(input), <<SP>>)

(***************************************************************************)
(* C4                                                                      *)
(***************************************************************************)
\* The statement as claimed: a sigil-free input yields exactly one Text, the
\* input with its whitespace runs collapsed.
C4_AsClaimed ==
    (Done /\ ~HasAt(input)) => result = Ok(<<Text(CollapseWs(input))>>)

\* C4: for every input without a sigil, parse returns no item when the input
\* holds only line breaks and braces (the empty input included), and otherwise
\* exactly one Text item: the input without its leading line breaks and
\* braces, each run of horizontal whitespace collapsed to a single space.
C4_PlainText ==
    (Done /\ ~HasAt(input)) =>
        LET t == CollapseWs(Drop(input, LeadLen(input, {NL, OPEN_PAREN, CLOSED_PAREN}))) IN
        result = IF t = <<>> THEN Ok(<<>>) ELSE Ok(<<Text(t)>>)

\* A sigil-free input with a leading line break, a whitespace run of both
\* kinds and a brace inside the text was parsed.
C4_Witness ==
    /\ Done /\ IsOk /\ ~HasAt(input)
    /\ Len(input) >= 4 /\ input[1] = NL
    /\ \E i \in 1..(Len(input) - 1) : IsHSpace(input[i]) /\ input[i + 1] = "\t"
    /\ Len(result.items) = 1
    /\ HasChar(result.items[1].text, "x")

(***************************************************************************)
(* C5                                                                      *)
(***************************************************************************)
NoAdjacentText(items) ==
    \A i \in 1..(Len(items) - 1) : ~(IsText(items[i]) /\ IsText(items[i + 1]))

\* C5: in every state of the pass and in the returned list no two Text items
\* are adjacent.
C5_NoAdjacentText ==
    /\ NoAdjacentText(grammar_items)
    /\ IsOk => NoAdjacentText(result.items)

\* A list with two Text items, separated by another item, was returned.
C5_Witness ==
    /\ Done /\ IsOk
    /\ \E i, j \in 1..Len(result.items) :
        /\ i + 1 < j
        /\ IsText(result.items[i]) /\ IsText(result.items[j])
        /\ Len(result.items[i].text) >= 2 /\ Len(result.items[j].text) >= 2

(***************************************************************************)
(* Tag words: the Word tokens directly after an At                         *)
(***************************************************************************)
\* The number of tokens dispatched so far.
Processed == IF idx = 0 THEN 0 ELSE idx - 1

\* The positions p <= n of the At tokens that are followed by a Word.
TagPos(toks, n) ==
    SelectSeq([i \in 1..n |-> i],
              LAMBDA p : toks[p].type = "At" /\ toks[p + 1].type = "Word")

Notations(items) == SelectSeq(items, IsNotation)

\* The number of leading characters of s other than c.
RECURSIVE LeadLenNot(_, _)
LeadLenNot(s, c) == IF s = <<>> \/ Head(s) = c THEN 0 ELSE 1 + LeadLenNot(Tail(s), c)

\* The text of w after its first '['.
AfterBracket(w) == Drop(w, LeadLenNot(w, BRACKET) + 1)

\* The text of w after its first '[' and before its next '['.
FirstSegment(w) == SubSeq(AfterBracket(w), 1, LeadLenNot(AfterBracket(w), BRACKET))

DirectionSuffixes == { sInB, sOutB, sInOutB, sOutInB }

IsParamWord(w) == StartsWith(w, sParam)

(***************************************************************************)
(* C6                                                                      *)
(***************************************************************************)
\* C6: for a tag word that begins with "param" and contains '[', parse
\* succeeds only if the word from its first '[' on is one of [in], [out],
\* [in,out], [out,in]; otherwise parse returns UnexpectedInput with the text
\* after the '[' as found and ["in]", "out]"] as expected. A param tag word
\* without '[' is no error and gets empty meta.
C6_AsClaimed ==
    Done =>
        LET tp == TagPos(lexed, NumWindows(lexed))
            word(k) == lexed[tp[k] + 1].v
            bad(k) == /\ IsParamWord(word(k)) /\ HasChar(word(k), BRACKET)
                      /\ AfterBracket(word(k)) \notin DirectionSuffixes
            bads == { k \in 1..Len(tp) : bad(k) }
        IN  IF bads = {}
            THEN /\ IsOk
                 /\ \A k \in 1..Len(tp) :
                      (IsParamWord(word(k)) /\ ~HasChar(word(k), BRACKET))
                          => Notations(result.items)[k].meta = <<>>
            ELSE /\ ~IsOk
                 /\ result.error.kind = "UnexpectedInput"
                 /\ result.error.expected = <<sInB, sOutB>>
                 /\ \E k \in bads : StartsWith(AfterBracket(word(k)), result.error.found)

(***************************************************************************)
(* C7                                                                      *)
(***************************************************************************)
\* A param tag word whose direction suffix the parser does not recognize.
Unrecognized(w) ==
    IsParamWord(w) /\ HasChar(w, BRACKET) /\ FirstSegment(w) \notin DirectionSuffixes

MetaValues == { <<>>, <<sIn>>, <<sOut>>, <<sIn, sOut>> }

\* C8: every Notation emitted has meta [], ["in"], ["out"] or ["in","out"],
\* has non-empty meta only under the tag "param", and has the tag "param"
\* whenever its tag word begins with "param" (and the tag word itself
\* otherwise).
C8_Meta ==
    LET tp == TagPos(lexed, Processed)
        ns == Notations(grammar_items)
    IN  /\ Len(ns) = Len(tp)
        /\ \A k \in 1..Len(ns) :
            LET w == lexed[tp[k] + 1].v IN
            /\ ns[k].meta \in MetaValues
            /\ ns[k].meta # <<>> => ns[k].tag = sParam
            /\ ns[k].tag = IF IsParamWord(w) THEN sParam ELSE w

\* A Notation for the suffix [out,in] was emitted.
C8_Witness ==
    /\ Done /\ IsOk
    /\ \E k \in 1..Len(TagPos(lexed, Processed)) :
        /\ EndsWith(lexed[TagPos(lexed, Processed)[k] + 1].v, sOutInB)
        /\ Notations(result.items)[k].meta = <<sIn, sOut>>

(***************************************************************************)
(* C9                                                                      *)
(***************************************************************************)
\* C9: every Notation has at most one entry in params; params holds the text
\* of the token three positions after the '@' when that token is a Word and
\* the tag word begins with "param" or is a single-argument tag name, and is
\* empty in every other case.
C9_Params ==
    LET tp == TagPos(lexed, Processed)
        ns == Notations(grammar_items)
    IN  \A k \in 1..Len(tp) :
            LET w == lexed[tp[k] + 1].v
                third == lexed[tp[k] + 3]
            IN  /\ k <= Len(ns)
                /\ Len(ns[k].params) <= 1
                /\ ns[k].params =
                     IF (IsParamWord(w) \/ w \in SingleArgTags) /\ third.type = "Word"
                     THEN <<third.v>> ELSE <<>>

\* One list holds a single-argument tag with its captured word and another
\* tag that is followed by a word and captured nothing.
C9_Witness ==
    /\ Done /\ IsOk
    /\ LET tp == TagPos(lexed, Processed)
           ns == Notations(result.items)
       IN  \E j, k \in 1..Len(tp) :
            /\ ns[j].params # <<>> /\ ns[j].tag \in SingleArgTags
            /\ ns[k].params = <<>> /\ lexed[tp[k] + 3].type = "Word"

(***************************************************************************)
(* C10                                                                     *)
(***************************************************************************)
Contains(s, t) ==
    \E i \in 0..Len(s) : i + Len(t) <= Len(s) /\ SubSeq(s, i + 1, i + Len(t)) = t

\* C10: an input and the same input with every run of spaces shortened to one
\* space have the same result, and for a sigil-free input two words separated
\* by a run of spaces are separated by exactly one space in the Text, which
\* holds no two spaces in a row.
C10_SpaceRuns ==
    Done =>
        /\ result = parse(Squeeze(input))
        /\ (IsOk /\ ~HasAt(input)) =>
            /\ \A k \in 1..Len(result.items) : ~HasDoubleSpace(result.items[k].text)
            /\ \A i \in 1..NumWindows(lexed) :
                (lexed[i].type = "Word" /\ lexed[i + 1].type = "Space"
                    /\ lexed[i + 2].type = "Word")
                => Contains(result.items[1].text, lexed[i].v \o <<SP>> \o lexed[i + 2].v)

\* An input with a run of two or more spaces between two words was parsed.
C10_Witness ==
    /\ Done /\ IsOk /\ ~HasAt(input)
    /\ Squeeze(input) # input
    /\ \E i \in 1..(Len(input) - 3) :
        /\ input[i] \notin Structural /\ input[i + 1] = SP /\ input[i + 2] = SP
        /\ input[i + 3] \notin Structural

(***************************************************************************)
(* C11                                                                     *)
(***************************************************************************)
\* A step of the loop that dispatched the token at idx without returning.
Dispatched == pc = "loop" /\ idx' = idx + 1

\* What one dispatch does to the skip counter.
C11_SkipStep ==
    Dispatched =>
        LET item == Window(lexed, idx) IN
        IF item[1].type = "At" /\ item[2].type = "Word"
        THEN param_iter_skip_count' =
                IF Last(grammar_items').params # <<>> THEN 2 ELSE 1
        ELSE IF item[1].type = "Word" /\ param_iter_skip_count > 0
        THEN param_iter_skip_count' = param_iter_skip_count - 1
        ELSE param_iter_skip_count' = param_iter_skip_count

RECURSIVE AllText(_)
AllText(items) ==
    IF items = <<>> THEN <<>>
    ELSE (IF IsText(Head(items)) THEN Head(items).text ELSE <<>>) \o AllText(Tail(items))

\* The characters of s that belong to words.
WordChars(s) == SelectSeq(s, LAMBDA c : c \notin Structural)

\* The positions of the tag words and of the words captured as arguments
\* among the first n tokens: for the k-th '@' followed by a Word, at p, the
\* position p + 1, and p + 3 when the k-th Notation holds an argument.
Consumed(toks, n, items) ==
    LET tp == TagPos(toks, n)
        ns == Notations(items)
    IN  { tp[k] + 1 : k \in 1..Len(tp) }
            \cup { tp[k] + 3 : k \in { j \in 1..Len(tp) : ns[j].params # <<>> } }

\* The texts of the Word tokens among the first n that are not consumed.
RECURSIVE KeptWords(_, _, _, _)
KeptWords(toks, i, n, skipped) ==
    IF i > n THEN <<>>
    ELSE (IF toks[i].type = "Word" /\ i \notin skipped THEN toks[i].v ELSE <<>>)
            \o KeptWords(toks, i + 1, n, skipped)

\* The dispatch of a Word that the skip counter discarded.
C12_DiscardStep ==
    (Dispatched /\ lexed[idx].type = "Word" /\ param_iter_skip_count > 0) =>
        /\ grammar_items' = grammar_items
        /\ idx \in Consumed(lexed, idx, grammar_items)

\* C12: a Word is discarded by the skip counter only if it is the tag word
\* directly after an '@' or the word captured into that Notation's params;
\* the words of the Text items, in order, are exactly the other Word tokens
\* dispatched so far, in input order, so that a captured word is in no Text.
C12_Words ==
    /\ [](WordChars(AllText(grammar_items))
            = KeptWords(lexed, 1, Processed, Consumed(lexed, Processed, grammar_items)))
    /\ [][C12_DiscardStep]_vars

\* A parse ended in which a word was captured as an argument and another
\* Word token with the same text is part of a Text.
C12_Witness ==
    /\ Done /\ IsOk
    /\ \E k \in 1..Len(result.items) :
        /\ IsNotation(result.items[k])
        /\ result.items[k].params # <<>>
        /\ Contains(AllText(result.items), result.items[k].params[1])

(***************************************************************************)
(* C13                                                                     *)
(***************************************************************************)
\* The number of tokens the tokenizer produced for the input.
NumTokens == Len(lex(input))

\* The dispatches begun so far: the ones completed and the one that returned
\* the error.
Steps == IF Done /\ ~IsOk THEN idx ELSE Processed

\* The statement as claimed: every pass performs a dispatch for each of the
\* n tokens before it terminates.
C13_AsClaimed == Done => Steps = NumTokens

\* C13: the padding Space tokens are never dispatched: the stream of n tokens
\* has n windows, dispatched in order; a pass that returns its list has
\* performed exactly n dispatches (none, with an empty list, for n = 0) and a
\* pass that returns an error has stopped at an '@' among the n tokens; the
\* list never holds more items than tokens were dispatched nor its Texts more
\* characters than the input.
C13_Padding ==
    /\ pc # "parse" => /\ lexed = lex(input) \o Padding
                       /\ NumWindows(lexed) = NumTokens
    /\ Processed <= NumTokens
    /\ (Done /\ IsOk) => Processed = NumTokens
    /\ (Done /\ ~IsOk) => /\ idx <= NumTokens
                          /\ lexed[idx].type = "At"
    /\ (Done /\ NumTokens = 0) => result = Ok(<<>>)
    /\ Len(grammar_items) <= Processed
    /\ Len(AllText(grammar_items)) <= Len(input)

\* A pass over a stream that ends with a word, a space and an '@', whose
\* lookahead lies in the padding, has returned its list.
C13_Witness ==
    /\ Done /\ IsOk
    /\ NumTokens >= 3
    /\ lexed[NumTokens].type = "At"
    /\ lexed[NumTokens - 1].type = "Space"
    /\ Processed = NumTokens
    /\ Last(result.items) = Text(lexed[NumTokens - 2].v \o <<SP>>)

(***************************************************************************)
(* C14                                                                     *)
(***************************************************************************)
\* The token at idx is an '@' whose next token is no Word and no brace.
BareAt ==
    /\ pc = "loop" /\ idx <= NumWindows(lexed)
    /\ lexed[idx].type = "At"
    /\ lexed[idx + 1].type \notin {"Word", "Paren"}

C14_BareAtStep ==
    BareAt => /\ pc' = "loop"
              /\ idx' = idx + 1
              /\ grammar_items' = grammar_items
              /\ param_iter_skip_count' = param_iter_skip_count

\* C14: the dispatch of an '@' whose next token is a Space, a NewLine,
\* another '@' or the padding after the last token leaves the item list and
\* the skip counter unchanged and returns no error, and no Text item ever
\* holds the sigil.
C14_BareAt ==
    /\ [](~HasAt(AllText(grammar_items)))
    /\ [][C14_BareAtStep]_vars

\* An '@' followed by another '@' was dispatched after text was collected.
C14_Witness ==
    /\ pc = "loop" /\ idx >= 3
    /\ lexed[idx - 1].type = "At"
    /\ lexed[idx].type = "At"
    /\ LastIsText(grammar_items)
    /\ Last(grammar_items).text # <<>>

(***************************************************************************)
(* C15                                                                     *)
(***************************************************************************)
\* The three cases of the dispatch of a Space.
C15_SpaceStep ==
    (pc = "loop" /\ idx <= NumWindows(lexed) /\ lexed[idx].type = "Space") =>
        /\ pc' = "loop" /\ idx' = idx + 1
        /\ param_iter_skip_count' = param_iter_skip_count
        /\ grammar_items' =
             IF grammar_items = <<>> THEN <<Text(<<SP>>)>>
             ELSE IF IsText(Last(grammar_items))
                  THEN Front(grammar_items)
                         \o <<Text(Last(grammar_items).text \o <<SP>>)>>
                  ELSE grammar_items \o <<Text(<<>>)>>

\* The positions in a list of its Notation items.
NotationIdx(items) ==
    SelectSeq([i \in 1..Len(items) |-> i], LAMBDA i : IsNotation(items[i]))

\* As claimed: a Text after a Notation that is not empty begins with exactly
\* one space when the Notation holds an argument and with no space when it
\* holds none.
C15_HenceAsClaimed ==
    \A i \in 1..(Len(result.items) - 1) :
        (/\ IsNotation(result.items[i]) /\ IsText(result.items[i + 1])
         /\ result.items[i + 1].text # <<>>) =>
            LET t == result.items[i + 1].text IN
            IF result.items[i].params = <<>>
            THEN ~StartsWith(t, <<SP>>)
            ELSE StartsWith(t, <<SP>>) /\ ~StartsWith(t, <<SP, SP>>)

\* The statement as claimed.
C15_AsClaimed ==
    /\ [][C15_SpaceStep]_vars
    /\ []((Done /\ IsOk) => C15_HenceAsClaimed)

\* For a tag followed by a space run and a word: without a captured argument
\* the Text after the Notation begins with that word; with the argument
\* followed by a second space run and a word, it begins with one space and
\* that word.
C15_Hence ==
    LET tp == TagPos(lexed, NumWindows(lexed))
        ni == NotationIdx(result.items)
    IN  \A k \in 1..Len(tp) :
            LET p == tp[k]
                n == result.items[ni[k]]
                t == result.items[ni[k] + 1]
            IN  /\ (/\ n.params = <<>>
                    /\ lexed[p + 2].type = "Space" /\ lexed[p + 3].type = "Word")
                    => /\ ni[k] < Len(result.items)
                       /\ IsText(t) /\ StartsWith(t.text, lexed[p + 3].v)
                /\ (/\ n.params # <<>>
                    /\ lexed[p + 2].type = "Space" /\ lexed[p + 4].type = "Space"
                    /\ lexed[p + 5].type = "Word")
                    => /\ ni[k] < Len(result.items)
                       /\ IsText(t) /\ StartsWith(t.text, <<SP>> \o lexed[p + 5].v)

\* C15: the dispatch of a Space pushes Text(" ") onto an empty list, appends
\* one space to a last item that is a Text, and pushes Text("") after a
\* Notation, GroupStart or GroupEnd; hence for "@tag", spaces, word the Text
\* after a Notation without argument begins with the word, and for "@tag",
\* spaces, argument, spaces, word the Text after the Notation begins with
\* exactly one space.
C15_Space ==
    /\ [][C15_SpaceStep]_vars
    /\ []((Done /\ IsOk) => C15_Hence)

\* A parse of a tag with a captured argument, spaces and a description ended
\* with the Text " d...".
C15_Witness ==
    /\ Done /\ IsOk
    /\ Len(result.items) = 2
    /\ IsNotation(result.items[1]) /\ result.items[1].params # <<>>
    /\ lexed[3].type = "Space" /\ lexed[5].type = "Space" /\ lexed[6].type = "Word"
    /\ StartsWith(result.items[2].text, <<SP>> \o lexed[6].v)

(***************************************************************************)
(* C16                                                                     *)
(***************************************************************************)
C16_LineBraceStep ==
    (/\ pc = "loop" /\ idx <= NumWindows(lexed)
     /\ lexed[idx].type \in {"NewLine", "Paren"}) =>
        /\ pc' = "loop" /\ idx' = idx + 1
        /\ param_iter_skip_count' = param_iter_skip_count
        /\ grammar_items' =
             IF grammar_items # <<>> /\ IsText(Last(grammar_items))
             THEN Front(grammar_items)
                    \o <<Text(Last(grammar_items).text \o lexed[idx].v)>>
             ELSE grammar_items

\* C16: the dispatch of a NewLine or of a brace appends its character to the
\* last item when that is a Text, and otherwise (an empty list, or a
\* Notation, GroupStart or GroupEnd last) leaves the list unchanged.
C16_LineBrace == [][C16_LineBraceStep]_vars

\* Both braces of a group were dropped after their group items and a line
\* break was appended to the Text that the space before it had started.
C16_Witness ==
    /\ Done /\ IsOk
    /\ lexed[2].type = "Paren" /\ lexed[3].type = "Space" /\ lexed[4].type = "NewLine"
    /\ result.items = <<GroupStart, Text(<<NL>>), GroupEnd>>

(***************************************************************************)
(* C17                                                                     *)
(***************************************************************************)
C17_AppendStep ==
    \/ grammar_items' = grammar_items
    \/ /\ Len(grammar_items') = Len(grammar_items) + 1
       /\ Front(grammar_items') = grammar_items
    \/ /\ grammar_items # <<>> /\ IsText(Last(grammar_items))
       /\ Len(grammar_items') = Len(grammar_items)
       /\ Front(grammar_items') = Front(grammar_items)
       /\ IsText(Last(grammar_items'))
       /\ StartsWith(Last(grammar_items').text, Last(grammar_items).text)

\* C17: every step leaves the item list unchanged, pushes exactly one item at
\* its end, or extends the content of its last item, a Text; its length never
\* decreases and no item before the last is modified or removed.
C17_AppendOnly == [][C17_AppendStep]_vars

\* A list was returned whose last item, after a Notation, is a Text that was
\* extended by a space and by a word after it was pushed.
C17_Witness ==
    /\ Done /\ IsOk
    /\ Len(result.items) >= 2
    /\ IsNotation(result.items[Len(result.items) - 1])
    /\ IsText(Last(result.items))
    /\ HasChar(Last(result.items).text, SP)
    /\ WordChars(Last(result.items).text) # <<>>

(***************************************************************************)
(* C18                                                                     *)
(***************************************************************************)
IsGroupItem(it) == it = GroupStart \/ it = GroupEnd

Count(s, P(_)) == Len(SelectSeq(s, P))

\* The positions p <= n of the At tokens that are followed by a brace.
GroupPos(toks, n) ==
    SelectSeq([i \in 1..n |-> i],
              LAMBDA p : toks[p].type = "At" /\ toks[p + 1].type = "Paren")

\* The positions q <= n of the braces that do not follow an At.
FreeBracePos(toks, n) ==
    SelectSeq([i \in 1..n |-> i],
              LAMBDA q : toks[q].type = "Paren" /\ (q = 1 \/ toks[q - 1].type # "At"))

C18_GroupStep ==
    /\ (/\ pc = "loop" /\ idx <= NumWindows(lexed)
        /\ lexed[idx].type = "At" /\ lexed[idx + 1].type = "Paren") =>
            /\ pc' = "loop" /\ idx' = idx + 1
            /\ grammar_items' =
                 Append(grammar_items,
                        IF lexed[idx + 1].v = <<OPEN_PAREN>> THEN GroupStart ELSE GroupEnd)
    /\ (/\ pc = "loop" /\ idx <= NumWindows(lexed) /\ idx > 1
        /\ lexed[idx].type = "Paren" /\ lexed[idx - 1].type = "At") =>
            /\ IsGroupItem(Last(grammar_items))
            /\ grammar_items' = grammar_items

\* C18: the dispatch of an '@' followed by a brace pushes exactly one item,
\* GroupStart for '{' and GroupEnd for '}'; the dispatch of that brace, next,
\* finds the group item last and changes nothing; so the list holds one group
\* item per pair dispatched and its Texts hold no more braces than there are
\* braces that follow no '@'.
C18_GroupBrace ==
    /\ [][C18_GroupStep]_vars
    /\ [](/\ Count(grammar_items, IsGroupItem) = Len(GroupPos(lexed, Processed))
          /\ Count(AllText(grammar_items), LAMBDA c : c \in {OPEN_PAREN, CLOSED_PAREN})
               <= Len(FreeBracePos(lexed, Processed)))

\* A group was parsed whose content holds a brace of its own: the Text keeps
\* that brace and neither brace of the delimiters.
C18_Witness ==
    /\ Done /\ IsOk /\ IsGroupInput(input)
    /\ Len(result.items) = 3
    /\ result.items[1] = GroupStart /\ result.items[3] = GroupEnd
    /\ IsText(result.items[2])
    /\ Count(result.items[2].text, LAMBDA c : c = OPEN_PAREN) = 1
    /\ Count(input, LAMBDA c : c = OPEN_PAREN) = 2

====
